---- MODULE Spec2Model ----
(***************************************************************************)
(* Model of the Spark Connect python client's call layer                   *)
(* (python/pyspark/sql/connect/client.py): the Retrying generator with     *)
(* RetryState and AttemptManager, and the three calls of                   *)
(* SparkConnectClient that run inside it (_analyze, _execute,              *)
(* _execute_and_fetch) together with _handle_error.                        *)
(*                                                                         *)
(* One client issues one call after another.  The server and the           *)
(* transport are the environment: every response, stream chunk and         *)
(* transport error is chosen nondeterministically.                         *)
(*                                                                         *)
(* The construction of a client from a connection string (ChannelBuilder   *)
(* and SparkConnectClient.__init__) is followed by SpecConnect.            *)
(***************************************************************************)
EXTENDS Integers, Sequences, FiniteSets, TLC

VARIABLES
    policy,        \* SparkConnectClient._retry_policy
    session_id,    \* SparkConnectClient._session_id
    call,          \* the call in progress (or the last one)
    can_retry,     \* Retrying._can_retry of the loop of this call
    explain_mode,  \* the explain_mode argument of _analyze
    req,           \* the request envelope built by the call
    pc,            \* "idle", "loop" (top of the while of __iter__),
                   \* "attempt" (inside the with block), "done"
    retry_state,   \* the RetryState of the loop
    attempts,      \* number of AttemptManagers yielded in this call
    sleeps,        \* number of time.sleep calls in this call
    backoff,       \* the local backoff of __iter__ (ms)
    rpc_calls,     \* number of stub.AnalyzePlan / stub.ExecutePlan calls
    loops,         \* number of RetryState objects created in this call
    raised,        \* the last exception raised inside a with block
    nchunks,       \* chunks read from the stream of this attempt
    batches,       \* the local batches of _execute_and_fetch
    m,             \* the local m of _execute_and_fetch
    outcome,       \* what the caller of the call receives
    user_id,       \* SparkConnectClient._user_id
    closed,        \* close() has been called on the client
    prev_sessions, \* session ids of the clients constructed before this one
    env_status,    \* the status kinds the server attaches to its errors
    sent,          \* the request envelopes passed to the stub in this call
    delivered,     \* record batches the stream of this attempt delivered
    last_block,    \* last metrics block the stream of this attempt carried
    connectionString, \* the connectionString argument of the constructor
    userId_arg,    \* the userId argument of the constructor
    env_USER,      \* the environment variable USER
    builder,       \* SparkConnectClient._builder
    channel,       \* SparkConnectClient._channel
    ctor_raised,   \* the exception the constructor raised
    retryPolicy,   \* the retryPolicy argument of the constructor
    lookup,        \* the last ChannelBuilder.get and what it gave
    history        \* what earlier loops and attempts left behind (when on)

vars == <<policy, session_id, call, can_retry, explain_mode, req, pc,
          retry_state, attempts, sleeps, backoff, rpc_calls, loops, raised,
          nchunks, batches, m, outcome, user_id, closed, prev_sessions,
          env_status, sent, delivered, last_block, connectionString, userId_arg,
          env_USER, builder, channel, ctor_raised, retryPolicy, lookup,
          history>>

\* the arguments and results of the construction of the client
connVars ==
    <<connectionString, userId_arg, env_USER, builder, channel, ctor_raised,
      retryPolicy, lookup>>

\* what a call never changes besides policy and session id
clientVars == <<user_id, closed, prev_sessions, env_status>>

(***************************************************************************)
(* Bounds of the model.                                                    *)
(***************************************************************************)
MaxRetriesBound == 2     \* max_retries ranges over -1 .. MaxRetriesBound
MaxBackoffMs == 2        \* initial_backoff, max_backoff range over 0 .. MaxBackoffMs
MaxChunks == 2           \* chunks a stream delivers before it ends or fails
MaxRows == 1             \* row count of a record batch, 0 .. MaxRows

(***************************************************************************)
(* Exceptions.  One record shape for every exception of the model:         *)
(*   cls     the python class                                              *)
(*   code    grpc status code of a transport error (e.code())              *)
(*   status  what rpc_status.from_call finds on a transport error          *)
(*   id      the attempt in which the (original) error was raised          *)
(*   msg     the text the exception carries                                *)
(*   reason  the reason= of a SparkConnectGrpcException                    *)
(*   plan    TRUE iff the exception carries info.metadata["plan"]          *)
(***************************************************************************)
Err(cls, code, status, id, msg, reason, plan) ==
    [cls |-> cls, code |-> code, status |-> status, id |-> id, msg |-> msg,
     reason |-> reason, plan |-> plan]

NoErr == Err("None", "", "", 0, "", "", FALSE)

\* grpc status codes of the transport errors the environment produces
StatusCodes == {"UNAVAILABLE", "INTERNAL"}

\* what is attached to a transport error: no status at all, a status without
\* an ErrorInfo detail, or a status whose first ErrorInfo has this reason
\* ("...IllegalArgumentException/empty": its metadata message is "")
StatusKinds ==
    {"none", "no_info",
     "org.apache.spark.sql.AnalysisException",
     "org.apache.spark.sql.catalyst.parser.ParseException",
     "org.apache.spark.sql.catalyst.analysis.TempTableAlreadyExistsException",
     "java.lang.IllegalArgumentException",
     "java.lang.IllegalArgumentException/empty",
     "java.lang.RuntimeException"}

RpcError(code, status, id) == Err("RpcError", code, status, id, "", "", FALSE)

\* the exception raised by the unit of work of a bare Retrying loop
WorkError(id) == Err("WorkError", "", "", id, "", "", FALSE)

SessionMismatchError(id) ==
    Err("SparkConnectException", "", "", id,
        "Received incorrect session identifier for request", "", FALSE)

InvalidStateError ==
    Err("SparkConnectException", "", "", 0,
        "Invalid state during retry exception handling.", "", FALSE)

UnknownExplainModeError(mode) ==
    Err("ValueError", "", "", 0, "Unknown explain mode: " \o mode, "", FALSE)

RetriesExceededError ==
    Err("ValueError", "", "", 0, "Retries exceeded but no exception caught.",
        "", FALSE)

\* random.randrange(0, b) with b <= 0
EmptyRangeError ==
    Err("ValueError", "", "", 0, "empty range for randrange()", "", FALSE)

\* e.code() on an exception that is no grpc call
NoCodeAttributeError(e) ==
    Err("AttributeError", "", "", e.id, "object has no attribute 'code'", "",
        FALSE)

EmptyBatchesError == Err("AssertionError", "", "", 0, "", "", FALSE)

(***************************************************************************)
(* RetryState                                                              *)
(***************************************************************************)
RetryState == [exception |-> NoErr, done |-> FALSE, count |-> 0]

\* mutant: the first recorded exception is kept
set_exception_KeepsFirst(rs, exc) ==
    [rs EXCEPT !.exception = IF rs.exception = NoErr THEN exc
                             ELSE rs.exception,
               !.count = rs.count + 1]

set_exception(rs, exc) ==
    [rs EXCEPT !.exception = exc, !.count = rs.count + 1]

set_done(rs) == [rs EXCEPT !.done = TRUE]

(***************************************************************************)
(* The retriable predicates.  The answer is "yes", "no", or "raise" when   *)
(* evaluating the predicate itself raises.                                 *)
(***************************************************************************)
\* e.code() exists on a grpc.RpcError (which is also a grpc.Call); the
\* exception classes of pyspark.errors are plain exceptions without code()
HasCodeMethod(e) == e.cls = "RpcError"

\* mutant: every transport error is retriable
retry_exception_AnyCode(e) ==
    IF HasCodeMethod(e) THEN "yes" ELSE "raise"

\* SparkConnectClient.retry_exception
retry_exception(e) ==
    IF HasCodeMethod(e)
    THEN (IF e.code = "UNAVAILABLE" THEN "yes" ELSE "no")
    ELSE "raise"

\* the predicates a bare Retrying loop is given: lambda x: True / False
Predicates == {"always_true", "always_false"}

CanRetry(pred, e) ==
    CASE pred = "always_true" -> "yes"
      [] pred = "always_false" -> "no"
      [] OTHER -> retry_exception(e)

(***************************************************************************)
(* Backoff of Retrying.__iter__.  backoff_multiplier is a float: it is a   *)
(* pair <<numerator, denominator>>.                                        *)
(***************************************************************************)
RECURSIVE Pow(_, _)
Pow(b, e) == IF e = 0 THEN 1 ELSE b * Pow(b, e - 1)

Multipliers == {<<2, 1>>, <<1, 2>>}

\* mutant: max() where the code takes min()
BackoffBound_Max(p, count) ==
    LET num == p.initial_backoff * Pow(p.backoff_multiplier[1], count)
        den == Pow(p.backoff_multiplier[2], count)
    IN  IF num >= p.max_backoff * den THEN num \div den ELSE p.max_backoff

\* int(min(initial_backoff * backoff_multiplier ** count, max_backoff))
BackoffBound(p, count) ==
    LET num == p.initial_backoff * Pow(p.backoff_multiplier[1], count)
        den == Pow(p.backoff_multiplier[2], count)
    IN  IF num <= p.max_backoff * den THEN num \div den ELSE p.max_backoff

(***************************************************************************)
(* Explain modes of _analyze.                                              *)
(***************************************************************************)
ExplainModes == {"simple", "extended", "codegen", "cost", "formatted"}

\* the strings callers pass
ModeArgs == ExplainModes \cup {"unknown"}

\* mutant: the cost branch sets CODEGEN
ExplainModeEnum_CostAsCodegen(mode) ==
    IF mode = "simple" THEN "SIMPLE"
    ELSE IF mode = "extended" THEN "EXTENDED"
    ELSE IF mode = "cost" THEN "CODEGEN"
    ELSE IF mode = "codegen" THEN "CODEGEN"
    ELSE "FORMATTED"

ExplainModeEnum(mode) ==
    IF mode = "simple" THEN "SIMPLE"
    ELSE IF mode = "extended" THEN "EXTENDED"
    ELSE IF mode = "cost" THEN "COST"
    ELSE IF mode = "codegen" THEN "CODEGEN"
    ELSE "FORMATTED"

(***************************************************************************)
(* SparkConnectClient._handle_error: the exception it raises.              *)
(***************************************************************************)
\* mutant: the generic error of an unrecognised reason loses its reason
_handle_error_DropsReason(e) ==
    IF e.status # "none"
    THEN IF e.status # "no_info"
         THEN CASE e.status = "org.apache.spark.sql.AnalysisException" ->
                     Err("SparkConnectAnalysisException", "", "", e.id,
                         "info.metadata.message", "", TRUE)
                [] e.status = "org.apache.spark.sql.catalyst.parser.ParseException" ->
                     Err("SparkConnectParseException", "", "", e.id,
                         "info.metadata.message", "", FALSE)
                [] e.status = "org.apache.spark.sql.catalyst.analysis.TempTableAlreadyExistsException" ->
                     Err("SparkConnectTempTableAlreadyExistsException", "", "",
                         e.id, "info.metadata.message", "", TRUE)
                [] e.status = "java.lang.IllegalArgumentException" ->
                     Err("SparkConnectIllegalArgumentException", "", "", e.id,
                         "info.metadata.message", "", FALSE)
                [] e.status = "java.lang.IllegalArgumentException/empty" ->
                     Err("SparkConnectIllegalArgumentException", "", "", e.id,
                         "status.message", "", FALSE)
                [] OTHER ->
                     Err("SparkConnectGrpcException", "", "", e.id,
                         "status.message", "", FALSE)
         ELSE Err("SparkConnectGrpcException", "", "", e.id, "status.message",
                  "", FALSE)
    ELSE Err("SparkConnectGrpcException", "", "", e.id, "str(rpc_error)", "",
             FALSE)

\* SparkConnectClient._handle_error: the exception it raises
_handle_error(e) ==
    IF e.status # "none"
    THEN IF e.status # "no_info"
         THEN CASE e.status = "org.apache.spark.sql.AnalysisException" ->
                     Err("SparkConnectAnalysisException", "", "", e.id,
                         "info.metadata.message", "", TRUE)
                [] e.status = "org.apache.spark.sql.catalyst.parser.ParseException" ->
                     Err("SparkConnectParseException", "", "", e.id,
                         "info.metadata.message", "", FALSE)
                [] e.status = "org.apache.spark.sql.catalyst.analysis.TempTableAlreadyExistsException" ->
                     Err("SparkConnectTempTableAlreadyExistsException", "", "",
                         e.id, "info.metadata.message", "", TRUE)
                [] e.status = "java.lang.IllegalArgumentException" ->
                     Err("SparkConnectIllegalArgumentException", "", "", e.id,
                         "info.metadata.message", "", FALSE)
                [] e.status = "java.lang.IllegalArgumentException/empty" ->
                     Err("SparkConnectIllegalArgumentException", "", "", e.id,
                         "status.message", "", FALSE)
                [] OTHER ->
                     Err("SparkConnectGrpcException", "", "", e.id,
                         "status.message", e.status, FALSE)
         ELSE Err("SparkConnectGrpcException", "", "", e.id, "status.message",
                  "", FALSE)
    ELSE Err("SparkConnectGrpcException", "", "", e.id, "str(rpc_error)", "",
             FALSE)

(***************************************************************************)
(* The environment's values.                                               *)
(***************************************************************************)
\* the client's own session id and a foreign one
SessionIds == {"S1", "S2"}

\* transport errors the server/channel produces during client calls
EnvStatusKinds == {"none", "no_info", "org.apache.spark.sql.AnalysisException"}

\* metrics blocks a chunk may carry
MetricsBlocks == {"M1"}

\* the record batches pa.ipc.open_stream reads from one arrow_batch: each
\* batch is its row count
ArrowPayloads == {<<>>} \cup {<<r>> : r \in 0..MaxRows}

\* a chunk of the ExecutePlan response stream
Chunks ==
    {b \in [client_id : SessionIds,
            metrics : MetricsBlocks \cup {"absent"},
            has_arrow : BOOLEAN,
            arrow : ArrowPayloads] : ~b.has_arrow => b.arrow = <<>>}

\* b.metrics: reading a message field yields the default instance when the
\* field is not set
FieldMetrics(b) == IF b.metrics = "absent" THEN "EmptyMetrics" ELSE b.metrics

\* SparkConnectClient._build_metrics
_build_metrics(metrics) ==
    IF metrics = "EmptyMetrics" THEN <<>> ELSE <<metrics>>

Policies ==
    [max_retries : (-1)..MaxRetriesBound,
     initial_backoff : 0..MaxBackoffMs,
     max_backoff : 0..MaxBackoffMs,
     backoff_multiplier : Multipliers]

ClientCalls == {"analyze", "execute", "execute_and_fetch"}

NoReq == [kind |-> "none", client_id |-> "", user_id |-> "", explain_mode |-> ""]

\* mutant: the envelope is built without the session id
_execute_plan_request_with_metadata_NoClientId ==
    [kind |-> "ExecutePlan", client_id |-> "",
     user_id |-> IF user_id # "None" /\ user_id # "" THEN user_id ELSE "",
     explain_mode |-> ""]

\* SparkConnectClient._execute_plan_request_with_metadata
_execute_plan_request_with_metadata ==
    [kind |-> "ExecutePlan", client_id |-> session_id,
     user_id |-> IF user_id # "None" /\ user_id # "" THEN user_id ELSE "",
     explain_mode |-> ""]

\* SparkConnectClient._analyze_plan_request_with_metadata
_analyze_plan_request_with_metadata ==
    [kind |-> "AnalyzePlan", client_id |-> session_id,
     user_id |-> IF user_id # "None" /\ user_id # "" THEN user_id ELSE "",
     explain_mode |-> ""]

NoOutcome ==
    [kind |-> "none", err |-> NoErr, result |-> 0, table |-> <<>>,
     metrics |-> <<>>]

Raise(e) == [NoOutcome EXCEPT !.kind = "error", !.err = e]

(***************************************************************************)
(* Init: a constructed client that has issued no call.                     *)
(***************************************************************************)
(***************************************************************************)
(* Connection strings.  A string is the sequence of its lexemes: the       *)
(* delimiters ":", "/", ";", "=" one by one and the maximal words between  *)
(* them.  No word contains "?", "#", "[" or "]".                           *)
(***************************************************************************)
MaxParams == 3           \* parameter segments of a connection string

\* the text of a sequence of lexemes
RECURSIVE Concat(_)
Concat(s) == IF s = <<>> THEN "" ELSE Head(s) \o Concat(Tail(s))

\* str.find(d, from): index of the first d at or after from, 0 if none
Find(s, d, from) ==
    LET I == {i \in DOMAIN s : i >= from /\ s[i] = d}
    IN IF I = {} THEN 0 ELSE CHOOSE i \in I : \A j \in I : i <= j

\* str.rfind(d): index of the last d, 0 if none
RFind(s, d) ==
    LET I == {i \in DOMAIN s : s[i] = d}
    IN IF I = {} THEN 0 ELSE CHOOSE i \in I : \A j \in I : i >= j

\* str.split(d)
RECURSIVE Split(_, _)
Split(s, d) ==
    LET i == Find(s, d, 1)
    IN IF i = 0 THEN <<s>>
       ELSE <<SubSeq(s, 1, i - 1)>> \o Split(SubSeq(s, i + 1, Len(s)), d)

\* urllib.parse.unquote on the values of the model
unquote(v) == IF v = "120%2021" THEN "120 21" ELSE v

\* str.lower on the values of the model
lower(v) ==
    CASE v = "TRUE" -> "true"
      [] v = "True" -> "true"
      [] OTHER -> v

\* the words int() accepts
Numerals == {"12", "13", "15002"}

\* int(v) for v in Numerals
int(v) ==
    CASE v = "12" -> 12
      [] v = "13" -> 13
      [] v = "15002" -> 15002

\* url[:5] == "sc://"
HasScPrefix(url) ==
    /\ Len(url) >= 4
    /\ SubSeq(url, 1, 4) = <<"sc", ":", "/", "/">>

\* "http" + url[2:], for a url with the prefix sc://
tmp_url(url) == <<"http">> \o Tail(url)

\* urllib.parse._splitparams
_splitparams(path) ==
    LET i == IF Find(path, "/", 1) # 0
             THEN Find(path, ";", RFind(path, "/"))
             ELSE Find(path, ";", 1)
    IN IF i = 0
       THEN [path |-> path, params |-> <<>>]
       ELSE [path |-> SubSeq(path, 1, i - 1),
             params |-> SubSeq(path, i + 1, Len(path))]

\* urllib.parse.urlparse of an http url: netloc, path and params
urlparse(t) ==
    LET rest == SubSeq(t, 5, Len(t))
        i == Find(rest, "/", 1)
        netloc == IF i = 0 THEN rest ELSE SubSeq(rest, 1, i - 1)
        path == IF i = 0 THEN <<>> ELSE SubSeq(rest, i, Len(rest))
        sp == IF Find(path, ";", 1) # 0 THEN _splitparams(path)
              ELSE [path |-> path, params |-> <<>>]
    IN [netloc |-> netloc, path |-> sp.path, params |-> sp.params]

\* mutant: the first value of a key is kept
DictSet_KeepsFirst(d, k, v) ==
    IF \E i \in DOMAIN d : d[i][1] = k
    THEN d
    ELSE Append(d, <<k, v>>)

\* self.params[k] = v on a dict, which keeps the order of first insertion
DictSet(d, k, v) ==
    IF \E i \in DOMAIN d : d[i][1] = k
    THEN [i \in DOMAIN d |-> IF d[i][1] = k THEN <<k, v>> ELSE d[i]]
    ELSE Append(d, <<k, v>>)

\* k in self.params
DictHas(d, k) == \E i \in DOMAIN d : d[i][1] = k

\* self.params.get(k, default)
DictGet(d, k, default) ==
    IF DictHas(d, k)
    THEN LET i == CHOOSE j \in DOMAIN d : d[j][1] = k IN d[i][2]
    ELSE default

ChannelBuilder_PARAM_USE_SSL == "use_ssl"
ChannelBuilder_PARAM_TOKEN == "token"
ChannelBuilder_PARAM_USER_ID == "user_id"

\* ChannelBuilder.default_port
default_port == 15002

ConnAttributeError(msg) == Err("AttributeError", "", "", 0, msg, "", FALSE)

\* int() of a text that is no numeral
IntValueError ==
    Err("ValueError", "", "", 0, "invalid literal for int() with base 10", "",
        FALSE)

\* no ChannelBuilder
NoBuilder ==
    [made |-> FALSE, params |-> <<>>, host |-> "", port |-> 0]

\* the outcome of a constructor: the exception it raises or the object
Raises(e) == [raised |-> e, builder |-> NoBuilder]

\* the loop of _extract_attributes over the well-formed parts
RECURSIVE FillParams(_, _)
FillParams(parts, d) ==
    IF parts = <<>> THEN d
    ELSE LET kv == Split(Head(parts), "=")
         IN FillParams(Tail(parts),
                       DictSet(d, Concat(kv[1]), unquote(Concat(kv[2]))))

\* mutant: a part with more than one "=" is accepted
_extract_attributes_LooseParts(u) ==
    LET parts == IF Len(u.params) > 0 THEN Split(u.params, ";") ELSE <<>>
        netloc == Split(u.netloc, ":")
    IN IF \E i \in DOMAIN parts : Len(Split(parts[i], "=")) < 2
       THEN Raises(ConnAttributeError("not a valid parameter key-value pair"))
       ELSE LET params == FillParams(parts, <<>>)
            IN CASE Len(netloc) = 1 ->
                      [raised |-> NoErr,
                       builder |-> [made |-> TRUE, params |-> params,
                                    host |-> Concat(netloc[1]),
                                    port |-> default_port]]
                 [] Len(netloc) = 2 ->
                      IF Concat(netloc[2]) \in Numerals
                      THEN [raised |-> NoErr,
                            builder |-> [made |-> TRUE, params |-> params,
                                         host |-> Concat(netloc[1]),
                                         port |-> int(Concat(netloc[2]))]]
                      ELSE Raises(IntValueError)
                 [] OTHER ->
                      Raises(ConnAttributeError(
                                 "does not match '<host>:<port>' pattern"))

\* ChannelBuilder._extract_attributes on the parsed url u
_extract_attributes(u) ==
    LET parts == IF Len(u.params) > 0 THEN Split(u.params, ";") ELSE <<>>
        netloc == Split(u.netloc, ":")
    IN IF \E i \in DOMAIN parts : Len(Split(parts[i], "=")) # 2
       THEN Raises(ConnAttributeError("not a valid parameter key-value pair"))
       ELSE LET params == FillParams(parts, <<>>)
            IN CASE Len(netloc) = 1 ->
                      [raised |-> NoErr,
                       builder |-> [made |-> TRUE, params |-> params,
                                    host |-> Concat(netloc[1]),
                                    port |-> default_port]]
                 [] Len(netloc) = 2 ->
                      IF Concat(netloc[2]) \in Numerals
                      THEN [raised |-> NoErr,
                            builder |-> [made |-> TRUE, params |-> params,
                                         host |-> Concat(netloc[1]),
                                         port |-> int(Concat(netloc[2]))]]
                      ELSE Raises(IntValueError)
                 [] OTHER ->
                      Raises(ConnAttributeError(
                                 "does not match '<host>:<port>' pattern"))

\* ChannelBuilder.__init__
ChannelBuilder(url) ==
    IF ~HasScPrefix(url)
    THEN Raises(ConnAttributeError("URL scheme must be set to sc."))
    ELSE LET u == urlparse(tmp_url(url))
         IN IF Len(u.path) > 0 /\ u.path # <<"/">>
            THEN Raises(ConnAttributeError(
                            "Path component for connection URI must be empty"))
            ELSE _extract_attributes(u)

\* ChannelBuilder._token
_token(b) == DictGet(b.params, ChannelBuilder_PARAM_TOKEN, "None")

\* mutant: use_ssl is compared as written
secure_CaseSensitive(b) ==
    IF _token(b) # "None" THEN TRUE
    ELSE DictGet(b.params, ChannelBuilder_PARAM_USE_SSL, "") = "true"

\* ChannelBuilder.secure
secure(b) ==
    IF _token(b) # "None" THEN TRUE
    ELSE lower(DictGet(b.params, ChannelBuilder_PARAM_USE_SSL, "")) = "true"

\* ChannelBuilder.endpoint
endpoint(b) == b.host \o ":" \o ToString(b.port)

\* ChannelBuilder.userId
userId(b) == DictGet(b.params, ChannelBuilder_PARAM_USER_ID, "None")

\* mutant: only the token is withheld from the metadata
metadata_KeepsUserId(b) ==
    SelectSeq(b.params,
              LAMBDA kv : kv[1] \notin {ChannelBuilder_PARAM_TOKEN,
                                        ChannelBuilder_PARAM_USE_SSL})

\* ChannelBuilder.metadata
metadata(b) ==
    SelectSeq(b.params,
              LAMBDA kv : kv[1] \notin {ChannelBuilder_PARAM_TOKEN,
                                        ChannelBuilder_PARAM_USE_SSL,
                                        ChannelBuilder_PARAM_USER_ID})

\* no grpc channel
NoChannel == [kind |-> "None", credentials |-> <<>>, token |-> "None",
              target |-> ""]

\* mutant: the token is attached whatever the channel
toChannel_TokenOnPlaintext(b) ==
    LET destination == b.host \o ":" \o ToString(b.port)
        use_secure == secure(b) /\ _token(b) = "None"
        opt_token == DictGet(b.params, ChannelBuilder_PARAM_TOKEN, "None")
    IN IF ~use_secure
       THEN [kind |-> "insecure_channel",
             credentials |-> IF opt_token # "None"
                             THEN <<"access_token_call_credentials">>
                             ELSE <<>>,
             token |-> opt_token, target |-> destination]
       ELSE [kind |-> "secure_channel",
             credentials |-> <<"ssl_channel_credentials">>,
             token |-> "None", target |-> destination]

\* ChannelBuilder.toChannel
toChannel(b) ==
    LET destination == b.host \o ":" \o ToString(b.port)
        use_secure == IF ~secure(b) /\ _token(b) # "None" THEN TRUE
                      ELSE IF secure(b) THEN TRUE
                      ELSE FALSE
        opt_token == DictGet(b.params, ChannelBuilder_PARAM_TOKEN, "None")
    IN IF ~use_secure
       THEN [kind |-> "insecure_channel", credentials |-> <<>>,
             token |-> "None", target |-> destination]
       ELSE IF opt_token # "None"
            THEN [kind |-> "secure_channel",
                  credentials |-> <<"ssl_channel_credentials",
                                    "access_token_call_credentials">>,
                  token |-> opt_token, target |-> destination]
            ELSE [kind |-> "secure_channel",
                  credentials |-> <<"ssl_channel_credentials">>,
                  token |-> "None", target |-> destination]

KeyError(key) == Err("KeyError", "", "", 0, key, "", FALSE)

\* no get() has been made
NoLookup == [done |-> FALSE, key |-> "None", raised |-> NoErr, value |-> "None"]

\* ChannelBuilder.get: self.params[key]
get(b, key) ==
    IF DictHas(b.params, key)
    THEN [done |-> TRUE, key |-> key, raised |-> NoErr,
          value |-> DictGet(b.params, key, "None")]
    ELSE [done |-> TRUE, key |-> key, raised |-> KeyError(key),
          value |-> "None"]

\* SparkConnectClient.__init__: the defaults of self._retry_policy
DefaultRetryPolicy ==
    [max_retries |-> 15, backoff_multiplier |-> <<4, 1>>,
     initial_backoff |-> 50, max_backoff |-> 60000]

\* self._retry_policy before the constructor has run
NoPolicy ==
    [max_retries |-> 0, backoff_multiplier |-> <<0, 1>>,
     initial_backoff |-> 0, max_backoff |-> 0]

\* mutant: the update changes nothing
dict_update_KeepsDefaults(d, u) ==
    [k \in DOMAIN d \cup DOMAIN u |-> d[k]]

\* dict.update
dict_update(d, u) ==
    [k \in DOMAIN d \cup DOMAIN u |-> IF k \in DOMAIN u THEN u[k] ELSE d[k]]

\* no retryPolicy argument
NoRetryPolicy == [given |-> FALSE, dict |-> [k \in {} |-> 0]]

\* the values a caller overrides the keys with
Overrides ==
    [max_retries |-> 1, backoff_multiplier |-> <<2, 1>>,
     initial_backoff |-> 1, max_backoff |-> MaxBackoffMs]

\* the retryPolicy arguments: none, or a dict naming some of the keys
RetryPolicyArgs ==
    {NoRetryPolicy}
    \cup {[given |-> TRUE, dict |-> [k \in K |-> Overrides[k]]] :
             K \in SUBSET DOMAIN DefaultRetryPolicy}

\* the policy of a client constructed with retryPolicy rp
_retry_policy(rp) ==
    IF rp.given /\ DOMAIN rp.dict # {}
    THEN dict_update(DefaultRetryPolicy, rp.dict)
    ELSE DefaultRetryPolicy

\* the keys looked up with get
LookupKeys == {"param1", "PARAM1", "x-my-header"}

\* mutant: the userId argument is tried before the connection string
ResolveUserId_ArgumentFirst(b, uid, env) ==
    IF uid # "None" THEN uid
    ELSE IF userId(b) # "None" THEN userId(b)
    ELSE env

\* SparkConnectClient.__init__: the user id of the client
ResolveUserId(b, uid, env) ==
    IF userId(b) # "None" THEN userId(b)
    ELSE IF uid # "None" THEN uid
    ELSE env

(***************************************************************************)
(* The connection strings and arguments a client is constructed with.      *)
(***************************************************************************)
Schemes ==
    {<<"sc", ":", "/", "/">>, <<"scc", ":", "/", "/">>,
     <<"http", ":", "/", "/">>, <<"sc", ":", "/">>}

Netlocs ==
    {<<"host">>, <<"host", ":", "12">>, <<"host", ":", "x">>,
     <<"host", ":", "12", ":", "13">>}

Paths == {<<>>, <<"/">>, <<"/", "path">>}

\* parameter segments: well formed ones, one without "=", one with two "=",
\* an empty one
Segments ==
    {<<"token", "=", "abc">>, <<"use_ssl", "=", "true">>,
     <<"use_ssl", "=", "TRUE">>, <<"use_ssl", "=", "abcs">>,
     <<"user_id", "=", "u1">>, <<"param1", "=", "120%2021">>,
     <<"x-my-header", "=", "abcd">>, <<"param1", "=", "v2">>,
     <<"parm1">>, <<"a", "=", "b", "=", "c">>, <<>>}

\* the well-formed segments of the longer parameter lists
CoreSegments ==
    {<<"token", "=", "abc">>, <<"use_ssl", "=", "TRUE">>,
     <<"user_id", "=", "u1">>, <<"param1", "=", "120%2021">>,
     <<"x-my-header", "=", "abcd">>, <<"param1", "=", "v2">>}

ParamLists(S, n) == UNION {[1..k -> S] : k \in 0..n}

\* ";" before every segment
RECURSIVE JoinParams(_)
JoinParams(ps) ==
    IF ps = <<>> THEN <<>>
    ELSE <<";">> \o Head(ps) \o JoinParams(Tail(ps))

\* the shapes sc://host[:port][/] of a connection string
PlainShapes ==
    {<<"sc", ":", "/", "/">> \o n \o p :
        n \in {<<"host">>, <<"host", ":", "12">>}, p \in {<<>>, <<"/">>}}

\* every shape of scheme, host:port and path with at most one segment; the
\* plain shapes with two segments of any kind, and with up to MaxParams
\* well-formed segments
Urls ==
    {sch \o n \o p \o JoinParams(ps) :
        sch \in Schemes, n \in Netlocs, p \in Paths,
        ps \in ParamLists(Segments, 1)}
    \cup
    {sh \o JoinParams(ps) :
        sh \in PlainShapes, ps \in ParamLists(Segments, 2)}
    \cup
    {sh \o JoinParams(ps) :
        sh \in PlainShapes, ps \in ParamLists(CoreSegments, MaxParams)}

\* the userId argument of the constructor
UserIdArgs == {"None", "arg"}

\* os.getenv("USER", None)
EnvUsers == {"None", "user"}

\* the connection string of the client whose calls are followed
DefaultUrl == <<"sc", ":", "/", "/", "host">>

\* the locals of the calls before the first call
InitLocals ==
    /\ call = "none"
    /\ can_retry = "retry_exception"
    /\ explain_mode = ""
    /\ req = NoReq
    /\ pc = "idle"
    /\ retry_state = RetryState
    /\ attempts = 0
    /\ sleeps = 0
    /\ backoff = 0
    /\ rpc_calls = 0
    /\ loops = 0
    /\ raised = NoErr
    /\ nchunks = 0
    /\ batches = <<>>
    /\ m = "None"
    /\ outcome = NoOutcome
    /\ closed = FALSE
    /\ prev_sessions = {}
    /\ sent = <<>>
    /\ delivered = <<>>
    /\ last_block = "none"

\* the fields of a new client constructed with DefaultUrl, no userId
\* argument and USER=user, that has made no call
InitCall ==
    /\ InitLocals
    /\ session_id = "S1"
    /\ connectionString = DefaultUrl
    /\ userId_arg = "None"
    /\ env_USER = "user"
    /\ builder = ChannelBuilder(DefaultUrl).builder
    /\ channel = toChannel(ChannelBuilder(DefaultUrl).builder)
    /\ user_id =
         ResolveUserId(ChannelBuilder(DefaultUrl).builder, "None", "user")
    /\ ctor_raised = NoErr
    /\ retryPolicy = [given |-> TRUE, dict |-> policy]
    /\ lookup = NoLookup

\* whether a call was made before this one, the count() of the RetryState
\* that call's loop left behind, and the number of record batches the
\* failed attempts of this call had appended to their lists; followed only
\* where on is TRUE
NoHistory == [on |-> FALSE, later |-> FALSE, failures |-> 0, discarded |-> 0]

Init ==
    /\ policy \in Policies
    /\ env_status = EnvStatusKinds
    /\ InitCall
    /\ history = NoHistory

\* the client is between calls
Idle == pc \in {"idle", "done"}

\* a call begins: its locals and the per-call counters
BeginCall(c, pred, mode, r) ==
    /\ Idle
    /\ ~closed
    /\ history' = IF history.on
                  THEN [history EXCEPT !.later = (call # "none"),
                                       !.failures = retry_state.count,
                                       !.discarded = 0]
                  ELSE history
    /\ call' = c
    /\ can_retry' = pred
    /\ explain_mode' = mode
    /\ req' = r
    /\ attempts' = 0
    /\ sleeps' = 0
    /\ backoff' = 0
    /\ rpc_calls' = 0
    /\ raised' = NoErr
    /\ nchunks' = 0
    /\ batches' = <<>>
    /\ m' = "None"
    /\ sent' = <<>>
    /\ delivered' = <<>>
    /\ last_block' = "none"
    /\ UNCHANGED <<policy, session_id>>
    /\ UNCHANGED clientVars
    /\ UNCHANGED connVars

\* mutant: the loops of one client share one RetryState
EnterLoop_SharesRetryState ==
    /\ retry_state' = [retry_state EXCEPT !.done = FALSE]
    /\ loops' = 1
    /\ pc' = "loop"
    /\ outcome' = NoOutcome

\* the for statement's first next(): __iter__ creates its RetryState
EnterLoop ==
    /\ retry_state' = RetryState
    /\ loops' = 1
    /\ pc' = "loop"
    /\ outcome' = NoOutcome

\* an exception leaves the for loop of the call: the client calls catch
\* grpc.RpcError and hand it to _handle_error, anything else goes to the caller
Propagate(e) ==
    /\ outcome' = Raise(IF call \in ClientCalls /\ e.cls = "RpcError"
                        THEN _handle_error(e)
                        ELSE e)
    /\ pc' = "done"

(***************************************************************************)
(* The calls.  Each Start action runs the call up to the first test of     *)
(* the while loop of Retrying.__iter__.                                    *)
(***************************************************************************)
\* _analyze, lines 564-586
StartAnalyze(mode) ==
    /\ BeginCall("analyze", "retry_exception", mode,
                 [_analyze_plan_request_with_metadata EXCEPT
                    !.explain_mode = IF mode \in ExplainModes
                                     THEN ExplainModeEnum(mode)
                                     ELSE "MODE_UNSPECIFIED"])
    /\ IF mode \notin ExplainModes
       THEN /\ outcome' = Raise(UnknownExplainModeError(mode))
            /\ pc' = "done"
            /\ loops' = 0
            /\ UNCHANGED retry_state
       ELSE EnterLoop

\* execute_command / register_udf -> _execute
StartExecute ==
    /\ BeginCall("execute", "retry_exception", "",
                 _execute_plan_request_with_metadata)
    /\ EnterLoop

\* to_table / to_pandas -> _execute_and_fetch
StartExecuteAndFetch ==
    /\ BeginCall("execute_and_fetch", "retry_exception", "",
                 _execute_plan_request_with_metadata)
    /\ EnterLoop

\* for attempt in Retrying(can_retry=pred, **policy): with attempt: work()
StartRetrying(pred) ==
    /\ BeginCall("retrying", pred, "", NoReq)
    /\ EnterLoop

(***************************************************************************)
(* Retrying.__iter__: one resumption of the generator, from the top of     *)
(* the while loop to the next yield, to the break or to a raise.           *)
(***************************************************************************)
LoopFrame ==
    UNCHANGED <<policy, session_id, call, can_retry, explain_mode, req,
                retry_state, loops, raised, m, user_id, closed, prev_sessions,
                env_status, connectionString, userId_arg, env_USER, builder,
                channel, ctor_raised, retryPolicy, lookup>>

\* mutant: the assertion of _execute_and_fetch counts chunks, not batches
LoopBreak_AssertsChunks ==
    /\ pc = "loop"
    /\ retry_state.done
    /\ pc' = "done"
    /\ outcome' =
         CASE call = "analyze" -> Raise(InvalidStateError)
           [] call = "execute_and_fetch" ->
                IF nchunks > 0
                THEN [NoOutcome EXCEPT
                        !.kind = "ok", !.table = batches,
                        !.metrics = IF m # "None" THEN _build_metrics(m)
                                    ELSE <<>>]
                ELSE Raise(EmptyBatchesError)
           [] OTHER -> [NoOutcome EXCEPT !.kind = "ok"]
    /\ UNCHANGED <<attempts, sleeps, backoff, rpc_calls, nchunks, batches,
                   sent, delivered, last_block, history>>
    /\ LoopFrame

\* retry_state.done(): break; the for loop ends and the call finishes
LoopBreak ==
    /\ pc = "loop"
    /\ retry_state.done
    /\ pc' = "done"
    /\ outcome' =
         CASE call = "analyze" -> Raise(InvalidStateError)
           [] call = "execute_and_fetch" ->
                IF Len(batches) > 0
                THEN [NoOutcome EXCEPT
                        !.kind = "ok", !.table = batches,
                        !.metrics = IF m # "None" THEN _build_metrics(m)
                                    ELSE <<>>]
                ELSE Raise(EmptyBatchesError)
           [] OTHER -> [NoOutcome EXCEPT !.kind = "ok"]
    /\ UNCHANGED <<attempts, sleeps, backoff, rpc_calls, nchunks, batches,
                   sent, delivered, last_block, history>>
    /\ LoopFrame

\* mutant: the exhaustion test allows one count more than the yield does
LoopExhausted_OneMore ==
    /\ pc = "loop"
    /\ ~retry_state.done
    /\ retry_state.count > policy.max_retries + 1
    /\ Propagate(IF retry_state.exception # NoErr
                 THEN retry_state.exception
                 ELSE RetriesExceededError)
    /\ UNCHANGED <<attempts, sleeps, backoff, rpc_calls, nchunks, batches,
                   sent, delivered, last_block, history>>
    /\ LoopFrame

\* retry_state.count() > max_retries: raise the recorded exception
LoopExhausted ==
    /\ pc = "loop"
    /\ ~retry_state.done
    /\ retry_state.count > policy.max_retries
    /\ Propagate(IF retry_state.exception # NoErr
                 THEN retry_state.exception
                 ELSE RetriesExceededError)
    /\ UNCHANGED <<attempts, sleeps, backoff, rpc_calls, nchunks, batches,
                   sent, delivered, last_block, history>>
    /\ LoopFrame

\* mutant: on an empty backoff range the recorded exception is raised
LoopBackoffFail_RaisesRecorded ==
    /\ pc = "loop"
    /\ ~retry_state.done
    /\ retry_state.count <= policy.max_retries
    /\ retry_state.count > 0
    /\ BackoffBound(policy, retry_state.count) <= 0
    /\ Propagate(retry_state.exception)
    /\ UNCHANGED <<attempts, sleeps, backoff, rpc_calls, nchunks, batches,
                   sent, delivered, last_block, history>>
    /\ LoopFrame

\* random.randrange(0, b) raises ValueError when b <= 0
LoopBackoffFail ==
    /\ pc = "loop"
    /\ ~retry_state.done
    /\ retry_state.count <= policy.max_retries
    /\ retry_state.count > 0
    /\ BackoffBound(policy, retry_state.count) <= 0
    /\ Propagate(EmptyRangeError)
    /\ UNCHANGED <<attempts, sleeps, backoff, rpc_calls, nchunks, batches,
                   sent, delivered, last_block, history>>
    /\ LoopFrame

\* mutant: the batches of a failed attempt are kept for the next attempt
EnterAttempt_KeepsBatches ==
    /\ attempts' = attempts + 1
    /\ rpc_calls' = IF call \in ClientCalls THEN rpc_calls + 1 ELSE rpc_calls
    /\ batches' = batches
    /\ nchunks' = 0
    /\ sent' = IF call \in ClientCalls THEN Append(sent, req) ELSE sent
    /\ delivered' = <<>>
    /\ last_block' = "none"
    /\ pc' = "attempt"
    /\ outcome' = outcome
    /\ history' = IF history.on /\ call = "execute_and_fetch"
                  THEN [history EXCEPT !.discarded = @ + Len(batches)]
                  ELSE history

\* mutant: the list of batches is emptied before the loop, not in the block
EnterAttempt_EmptiesBatchesOnce ==
    /\ attempts' = attempts + 1
    /\ rpc_calls' = IF call \in ClientCalls THEN rpc_calls + 1 ELSE rpc_calls
    /\ batches' = IF call = "execute_and_fetch" /\ attempts = 0
                  THEN <<>> ELSE batches
    /\ nchunks' = 0
    /\ sent' = IF call \in ClientCalls THEN Append(sent, req) ELSE sent
    /\ delivered' = <<>>
    /\ last_block' = "none"
    /\ pc' = "attempt"
    /\ outcome' = outcome
    /\ history' = history

\* mutant: a retry sends an envelope without the session and user ids
EnterAttempt_ResendsBareRequest ==
    /\ attempts' = attempts + 1
    /\ rpc_calls' = IF call \in ClientCalls THEN rpc_calls + 1 ELSE rpc_calls
    /\ batches' = IF call = "execute_and_fetch" THEN <<>> ELSE batches
    /\ nchunks' = 0
    /\ sent' = IF call \in ClientCalls
               THEN Append(sent, IF attempts = 0 THEN req
                                 ELSE [req EXCEPT !.client_id = "",
                                                  !.user_id = ""])
               ELSE sent
    /\ delivered' = <<>>
    /\ last_block' = "none"
    /\ pc' = "attempt"
    /\ outcome' = outcome
    /\ history' = IF history.on /\ call = "execute_and_fetch"
                  THEN [history EXCEPT !.discarded = @ + Len(batches)]
                  ELSE history

\* the with block is entered: the request is sent
EnterAttempt ==
    /\ attempts' = attempts + 1
    /\ rpc_calls' = IF call \in ClientCalls THEN rpc_calls + 1 ELSE rpc_calls
    /\ batches' = IF call = "execute_and_fetch" THEN <<>> ELSE batches
    /\ nchunks' = 0
    /\ sent' = IF call \in ClientCalls THEN Append(sent, req) ELSE sent
    /\ delivered' = <<>>
    /\ last_block' = "none"
    /\ pc' = "attempt"
    /\ outcome' = outcome
    /\ history' = IF history.on /\ call = "execute_and_fetch"
                  THEN [history EXCEPT !.discarded = @ + Len(batches)]
                  ELSE history

\* mutant: the loop does not test retry_state.done() before it yields
LoopYieldFirst_NoDoneTest ==
    /\ pc = "loop"
    /\ retry_state.count <= policy.max_retries
    /\ retry_state.count = 0
    /\ EnterAttempt
    /\ UNCHANGED <<sleeps, backoff>>
    /\ LoopFrame

\* first attempt: no backoff
LoopYieldFirst ==
    /\ pc = "loop"
    /\ ~retry_state.done
    /\ retry_state.count <= policy.max_retries
    /\ retry_state.count = 0
    /\ EnterAttempt
    /\ UNCHANGED <<sleeps, backoff>>
    /\ LoopFrame

\* a retry: sleep backoff ms, then yield
LoopYieldRetry ==
    /\ pc = "loop"
    /\ ~retry_state.done
    /\ retry_state.count <= policy.max_retries
    /\ retry_state.count > 0
    /\ \E d \in 0..(BackoffBound(policy, retry_state.count) - 1) :
          /\ backoff' = d
          /\ sleeps' = sleeps + 1
    /\ EnterAttempt
    /\ LoopFrame

(***************************************************************************)
(* AttemptManager.__exit__                                                 *)
(***************************************************************************)
\* mutant: the exception is recorded before the predicate is asked
ExitRaising_RecordsFirst(exc_val) ==
    /\ raised' = exc_val
    /\ retry_state' = set_exception(retry_state, exc_val)
    /\ LET r == CanRetry(can_retry, exc_val)
       IN  IF r = "yes"
           THEN /\ pc' = "loop"
                /\ outcome' = outcome
           ELSE Propagate(IF r = "no" THEN exc_val
                          ELSE NoCodeAttributeError(exc_val))

\* the with block raised exc_val
ExitRaising(exc_val) ==
    /\ raised' = exc_val
    /\ LET r == CanRetry(can_retry, exc_val)
       IN  IF r = "yes"
           THEN \* swallow the exception
                /\ retry_state' = set_exception(retry_state, exc_val)
                /\ pc' = "loop"
                /\ outcome' = outcome
           ELSE \* bubble up the exception, or the one the predicate raised
                /\ Propagate(IF r = "no" THEN exc_val
                             ELSE NoCodeAttributeError(exc_val))
                /\ retry_state' = retry_state

\* the with block ended without an exception
ExitNormally ==
    /\ retry_state' = set_done(retry_state)
    /\ raised' = raised

AttemptFrame ==
    UNCHANGED <<policy, session_id, call, can_retry, explain_mode, req,
                attempts, sleeps, backoff, rpc_calls, loops, user_id, closed,
                prev_sessions, env_status, sent, connectionString, userId_arg,
                env_USER, builder, channel, ctor_raised, retryPolicy,
                lookup, history>>

(***************************************************************************)
(* The body of the with block in _analyze.                                 *)
(***************************************************************************)
\* AnalyzePlan answers with the client's session id: return inside the with
AnalyzeReturn ==
    /\ pc = "attempt"
    /\ call = "analyze"
    /\ ExitNormally
    /\ outcome' = [NoOutcome EXCEPT !.kind = "ok", !.result = attempts]
    /\ pc' = "done"
    /\ UNCHANGED <<nchunks, batches, m, delivered, last_block>>
    /\ AttemptFrame

\* AnalyzePlan answers with another session id
AnalyzeMismatch ==
    /\ pc = "attempt"
    /\ call = "analyze"
    /\ \E cid \in SessionIds :
          /\ cid # session_id
          /\ ExitRaising(SessionMismatchError(attempts))
    /\ UNCHANGED <<nchunks, batches, m, delivered, last_block>>
    /\ AttemptFrame

\* AnalyzePlan raises a transport error
AnalyzeRpcError ==
    /\ pc = "attempt"
    /\ call = "analyze"
    /\ \E code \in StatusCodes, st \in env_status :
          ExitRaising(RpcError(code, st, attempts))
    /\ UNCHANGED <<nchunks, batches, m, delivered, last_block>>
    /\ AttemptFrame

(***************************************************************************)
(* The body of the with block in _execute and _execute_and_fetch: the      *)
(* loop over the response stream.                                          *)
(***************************************************************************)
\* the stream delivers chunk b
RecvChunk ==
    /\ pc = "attempt"
    /\ call \in {"execute", "execute_and_fetch"}
    /\ nchunks < MaxChunks
    /\ \E b \in Chunks :
          IF b.client_id # session_id
          THEN /\ ExitRaising(SessionMismatchError(attempts))
               /\ UNCHANGED <<nchunks, batches, m, delivered, last_block>>
          ELSE /\ nchunks' = nchunks + 1
               /\ IF call = "execute_and_fetch"
                  THEN /\ m' = FieldMetrics(b)
                       /\ batches' = IF b.has_arrow
                                     THEN batches \o b.arrow
                                     ELSE batches
                       /\ delivered' = delivered \o b.arrow
                       /\ last_block' = IF b.metrics # "absent"
                                        THEN b.metrics
                                        ELSE last_block
                  ELSE UNCHANGED <<batches, m, delivered, last_block>>
               /\ UNCHANGED <<pc, retry_state, raised, outcome>>
    /\ AttemptFrame

\* the stream is exhausted: the with block ends
StreamEnd ==
    /\ pc = "attempt"
    /\ call \in {"execute", "execute_and_fetch"}
    /\ ExitNormally
    /\ pc' = "loop"
    /\ UNCHANGED <<nchunks, batches, m, delivered, last_block, outcome>>
    /\ AttemptFrame

\* the stream raises a transport error
StreamRpcError ==
    /\ pc = "attempt"
    /\ call \in {"execute", "execute_and_fetch"}
    /\ \E code \in StatusCodes, st \in env_status :
          ExitRaising(RpcError(code, st, attempts))
    /\ UNCHANGED <<nchunks, batches, m, delivered, last_block>>
    /\ AttemptFrame

(***************************************************************************)
(* The body of the with block of a bare Retrying loop.                     *)
(***************************************************************************)
WorkReturns ==
    /\ pc = "attempt"
    /\ call = "retrying"
    /\ ExitNormally
    /\ pc' = "loop"
    /\ UNCHANGED <<nchunks, batches, m, delivered, last_block, outcome>>
    /\ AttemptFrame

WorkRaises ==
    /\ pc = "attempt"
    /\ call = "retrying"
    /\ ExitRaising(WorkError(attempts))
    /\ UNCHANGED <<nchunks, batches, m, delivered, last_block>>
    /\ AttemptFrame

Next ==
    \/ \E mode \in ModeArgs : StartAnalyze(mode)
    \/ StartExecute
    \/ StartExecuteAndFetch
    \/ \E pred \in Predicates : StartRetrying(pred)
    \/ LoopBreak
    \/ LoopExhausted
    \/ LoopBackoffFail
    \/ LoopYieldFirst
    \/ LoopYieldRetry
    \/ AnalyzeReturn
    \/ AnalyzeMismatch
    \/ AnalyzeRpcError
    \/ RecvChunk
    \/ StreamEnd
    \/ StreamRpcError
    \/ WorkReturns
    \/ WorkRaises

Spec == Init /\ [][Next]_vars

(***************************************************************************)
(* The life of clients: close() and the construction of another client.   *)
(***************************************************************************)
\* SparkConnectClient.close
Close ==
    /\ Idle
    /\ ~closed
    /\ closed' = TRUE
    /\ UNCHANGED <<policy, session_id, call, can_retry, explain_mode, req, pc,
                   retry_state, attempts, sleeps, backoff, rpc_calls, loops,
                   raised, nchunks, batches, m, outcome, user_id,
                   prev_sessions, env_status, sent, delivered, last_block,
                   history>>
    /\ UNCHANGED connVars

\* SparkConnectClient.__init__ of another client: uuid.uuid4() yields an id
\* no client had before
NewClient ==
    /\ Idle
    /\ \E id \in SessionIds \ (prev_sessions \cup {session_id}) :
          session_id' = id
    /\ prev_sessions' = prev_sessions \cup {session_id}
    /\ closed' = FALSE
    /\ call' = "none"
    /\ can_retry' = "retry_exception"
    /\ explain_mode' = ""
    /\ req' = NoReq
    /\ pc' = "idle"
    /\ retry_state' = RetryState
    /\ attempts' = 0
    /\ sleeps' = 0
    /\ backoff' = 0
    /\ rpc_calls' = 0
    /\ loops' = 0
    /\ raised' = NoErr
    /\ nchunks' = 0
    /\ batches' = <<>>
    /\ m' = "None"
    /\ outcome' = NoOutcome
    /\ sent' = <<>>
    /\ delivered' = <<>>
    /\ last_block' = "none"
    /\ UNCHANGED <<policy, user_id, env_status, history>>
    /\ UNCHANGED connVars

\* the retry policies of the clients whose life is followed
SessionPolicies ==
    [max_retries : 0..1,
     initial_backoff : 0..1,
     max_backoff : {MaxBackoffMs},
     backoff_multiplier : {<<2, 1>>}]

InitSession ==
    /\ Init
    /\ policy \in SessionPolicies

NextSession ==
    \/ Next
    \/ Close
    \/ NewClient

SpecSession == InitSession /\ [][NextSession]_vars

(***************************************************************************)
(* A sequence of calls on one client, with what each call left behind.     *)
(***************************************************************************)
InitCalls ==
    /\ policy \in SessionPolicies
    /\ env_status = EnvStatusKinds
    /\ InitCall
    /\ history = [NoHistory EXCEPT !.on = TRUE]

SpecCalls == InitCalls /\ [][Next]_vars

(***************************************************************************)
(* The calls when every transport call and every sleep terminates: a step  *)
(* of the running call is eventually taken.                                *)
(***************************************************************************)
SpecLive == InitSession /\ [][Next]_vars /\ WF_vars(Next)

(***************************************************************************)
(* The calls against a server that attaches every kind of status to its   *)
(* transport errors.                                                       *)
(***************************************************************************)
InitTranslate ==
    /\ policy \in SessionPolicies
    /\ env_status = StatusKinds
    /\ InitCall
    /\ history = NoHistory

SpecTranslate == InitTranslate /\ [][Next]_vars

(***************************************************************************)
(* The construction of a client from a connection string.                  *)
(***************************************************************************)
\* before SparkConnectClient(connectionString, userId, retryPolicy) is
\* evaluated: every connection string without a retry policy, the plain
\* ones with every retry policy
InitConnect ==
    /\ InitLocals
    /\ policy = NoPolicy
    /\ env_status = EnvStatusKinds
    /\ \/ /\ connectionString \in Urls
          /\ retryPolicy = NoRetryPolicy
       \/ /\ connectionString \in PlainShapes
          /\ retryPolicy \in RetryPolicyArgs
    /\ userId_arg \in UserIdArgs
    /\ env_USER \in EnvUsers
    /\ session_id = "None"
    /\ user_id = "None"
    /\ builder = NoBuilder
    /\ channel = NoChannel
    /\ ctor_raised = NoErr
    /\ lookup = NoLookup
    /\ history = NoHistory

\* SparkConnectClient.__init__
Connect ==
    /\ ~builder.made
    /\ ctor_raised = NoErr
    /\ LET r == ChannelBuilder(connectionString)
       IN IF r.raised # NoErr
          THEN /\ ctor_raised' = r.raised
               /\ UNCHANGED <<builder, channel, user_id, session_id, policy>>
          ELSE /\ builder' = r.builder
               /\ policy' = _retry_policy(retryPolicy)
               /\ \E id \in SessionIds \ prev_sessions : session_id' = id
               /\ user_id' = ResolveUserId(r.builder, userId_arg, env_USER)
               /\ channel' = toChannel(r.builder)
               /\ UNCHANGED ctor_raised
    /\ UNCHANGED <<call, can_retry, explain_mode, req, pc,
                   retry_state, attempts, sleeps, backoff, rpc_calls, loops,
                   raised, nchunks, batches, m, outcome, closed,
                   prev_sessions, env_status, sent, delivered, last_block,
                   connectionString, userId_arg, env_USER, retryPolicy,
                   lookup, history>>

\* ChannelBuilder.get(key) on the builder of the client
Get(key) ==
    /\ builder.made
    /\ ~lookup.done
    /\ lookup' = get(builder, key)
    /\ UNCHANGED <<policy, session_id, call, can_retry, explain_mode, req, pc,
                   retry_state, attempts, sleeps, backoff, rpc_calls, loops,
                   raised, nchunks, batches, m, outcome, user_id, closed,
                   prev_sessions, env_status, sent, delivered, last_block,
                   connectionString, userId_arg, env_USER, builder, channel,
                   ctor_raised, retryPolicy, history>>

NextConnect ==
    \/ Connect
    \/ \E key \in LookupKeys : Get(key)

SpecConnect == InitConnect /\ [][NextConnect]_vars

(***************************************************************************)
(* Properties.                                                             *)
(***************************************************************************)
\* the exception the unit of work raised in its n-th attempt: this call is a
\* bare loop in which every attempt so far raised
AllAttemptsRaised ==
    /\ call = "retrying"
    /\ loops = 1
    /\ ~retry_state.done

\* C1 (as stated): in a bare Retrying loop with max_retries = N >= 0 and a
\* predicate that is always true, if every attempt raises, the loop ends
\* after exactly N+1 attempts by raising the error of the (N+1)-th attempt.
C1_ExhaustedRaisesLastError ==
    (/\ pc = "done"
     /\ AllAttemptsRaised
     /\ can_retry = "always_true"
     /\ policy.max_retries >= 0)
    => /\ attempts = policy.max_retries + 1
       /\ outcome = Raise(WorkError(policy.max_retries + 1))

\* C2: in a bare Retrying loop whose predicate is always false, once the
\* first attempt raises, the loop is over after that one attempt, without a
\* sleep, with an untouched retry state, and the caller receives the very
\* exception that was raised.
C2_NotRetriablePropagatesUnchanged ==
    (/\ call = "retrying"
     /\ can_retry = "always_false"
     /\ raised # NoErr)
    => /\ pc = "done"
       /\ attempts = 1
       /\ sleeps = 0
       /\ retry_state = RetryState
       /\ raised = WorkError(1)
       /\ outcome = Raise(raised)

C2_Witness ==
    /\ call = "retrying"
    /\ can_retry = "always_false"
    /\ raised = WorkError(1)
    /\ pc = "done"
    /\ outcome.kind = "error"

\* C3: around a client call, when k attempts failed with UNAVAILABLE and
\* attempt k+1 then succeeds, k <= max_retries, exactly k+1 attempts (and
\* k+1 requests, k sleeps) have been made, nothing more is attempted or
\* slept after the success, and the call returns that attempt's result (for
\* _execute_and_fetch: when the attempt delivered a batch).
C3_SuccessAfterRetries ==
    (/\ call \in ClientCalls
     /\ loops = 1
     /\ retry_state.done)
    => LET k == retry_state.count
       IN  /\ k <= policy.max_retries
           /\ attempts = k + 1
           /\ rpc_calls = k + 1
           /\ sleeps = k
           /\ k > 0 => /\ retry_state.exception.cls = "RpcError"
                       /\ retry_state.exception.code = "UNAVAILABLE"
           /\ pc \in {"loop", "done"}
           /\ (pc = "done" /\ ~(call = "execute_and_fetch" /\ batches = <<>>))
              => /\ outcome.kind = "ok"
                 /\ call = "analyze" => outcome.result = k + 1
                 /\ call = "execute_and_fetch" => outcome.table = batches

C3_Witness ==
    /\ call = "analyze"
    /\ pc = "done"
    /\ outcome.kind = "ok"
    /\ retry_state.count = 2
    /\ attempts = 3

\* C4: an attempt that follows c >= 1 recorded failures was preceded by c
\* sleeps, the last of d ms with
\* 0 <= d < min(initial_backoff * backoff_multiplier^c, max_backoff); the
\* first attempt is preceded by no sleep.
C4_BackoffWithinBound ==
    pc = "attempt"
    => LET c == retry_state.count
           num == policy.initial_backoff * Pow(policy.backoff_multiplier[1], c)
           den == Pow(policy.backoff_multiplier[2], c)
       IN  IF c = 0
           THEN sleeps = 0
           ELSE /\ c <= policy.max_retries
                /\ sleeps = c
                /\ 0 <= backoff
                /\ backoff * den < num
                /\ backoff < policy.max_backoff

C4_Witness ==
    /\ pc = "attempt"
    /\ retry_state.count = 2
    /\ sleeps = 2
    /\ backoff = 1

\* C5 (as stated): when a response or stream chunk of a client call carries
\* a foreign session id, the caller receives exactly the
\* SessionIdentityMismatch error raised for it, and no further attempt is
\* made.
C5_MismatchReachesCaller ==
    (/\ call \in ClientCalls
     /\ raised.cls = "SparkConnectException")
    => /\ pc = "done"
       /\ attempts = raised.id
       /\ outcome = Raise(raised)

\* every attempt of this client call failed with UNAVAILABLE and the
\* retries are used up
ClientRetriesExhausted ==
    /\ pc = "done"
    /\ call \in ClientCalls
    /\ loops = 1
    /\ policy.max_retries >= 0
    /\ ~retry_state.done
    /\ attempts = policy.max_retries + 1
    /\ retry_state.count = policy.max_retries + 1

InTaxonomy(e) ==
    \/ e = UnknownExplainModeError(explain_mode)
    \/ e = SessionMismatchError(e.id)
    \/ e = EmptyBatchesError
    \/ e = RetriesExceededError
    \/ e.cls \in {"SparkConnectAnalysisException",
                  "SparkConnectParseException",
                  "SparkConnectTempTableAlreadyExistsException",
                  "SparkConnectIllegalArgumentException",
                  "SparkConnectGrpcException"}

\* C7 (as stated): every client call ends with a result or with exactly one
\* error of the taxonomy; never with a raw transport error or another error.
C7_OutcomeInTaxonomy ==
    (pc = "done" /\ call \in ClientCalls)
    => \/ outcome.kind = "ok" /\ outcome.err = NoErr
       \/ outcome.kind = "error" /\ InTaxonomy(outcome.err)

C9_EmptyResultStream ==
    (pc = "done" /\ call = "execute_and_fetch")
    => /\ outcome = Raise(EmptyBatchesError)
            <=> (retry_state.done /\ Len(batches) = 0)
       /\ (retry_state.done /\ Len(batches) > 0)
            => /\ outcome.kind = "ok"
               /\ outcome.table = batches

C9_Witness ==
    /\ pc = "done"
    /\ call = "execute_and_fetch"
    /\ nchunks > 0
    /\ outcome = Raise(EmptyBatchesError)

\* the wire value of each explain mode
ExplainWireValue ==
    [mode \in ExplainModes |->
        CASE mode = "simple" -> "SIMPLE"
          [] mode = "extended" -> "EXTENDED"
          [] mode = "codegen" -> "CODEGEN"
          [] mode = "cost" -> "COST"
          [] mode = "formatted" -> "FORMATTED"]

\* C10: _analyze puts into the request the wire value of the explain mode
\* it was given, which is the wire value of no other mode; with any other
\* string it fails with a ValueError naming the string, sends no AnalyzePlan
\* request and starts no retry loop.
C10_ExplainModeValidation ==
    (call = "analyze")
    => IF explain_mode \in ExplainModes
       THEN /\ req.explain_mode = ExplainWireValue[explain_mode]
            /\ \A other \in ExplainModes \ {explain_mode} :
                  ExplainWireValue[other] # req.explain_mode
            /\ loops = 1
       ELSE /\ pc = "done"
            /\ outcome = Raise(UnknownExplainModeError(explain_mode))
            /\ outcome.err.cls = "ValueError"
            /\ rpc_calls = 0
            /\ attempts = 0
            /\ loops = 0

C10_Witness ==
    /\ call = "analyze"
    /\ explain_mode = "unknown"
    /\ pc = "done"
    /\ outcome.kind = "error"

EndedInRpcError ==
    /\ pc = "done"
    /\ call \in ClientCalls
    /\ raised.cls = "RpcError"
    /\ ~retry_state.done
    /\ outcome # Raise(EmptyRangeError)

\* C13: _handle_error never returns normally and what it raises is a
\* function of the status alone: AnalysisException -> analysis error with
\* message and plan; ParseException -> parse error with message;
\* TempTableAlreadyExistsException -> its error with message and plan;
\* IllegalArgumentException -> its error with a message; another reason ->
\* generic error with the status message and the reason; a status without
\* ErrorInfo -> generic error with the status message; no status -> generic
\* error with the text of the transport error.
C13_HandleErrorTotal ==
    EndedInRpcError
    => LET st == raised.status
           e == outcome.err
       IN /\ outcome.kind = "error"
          /\ st = "org.apache.spark.sql.AnalysisException"
             => /\ e.cls = "SparkConnectAnalysisException"
                /\ e.msg = "info.metadata.message" /\ e.plan
          /\ st = "org.apache.spark.sql.catalyst.parser.ParseException"
             => /\ e.cls = "SparkConnectParseException"
                /\ e.msg = "info.metadata.message" /\ ~e.plan
          /\ st = "org.apache.spark.sql.catalyst.analysis.TempTableAlreadyExistsException"
             => /\ e.cls = "SparkConnectTempTableAlreadyExistsException"
                /\ e.msg = "info.metadata.message" /\ e.plan
          /\ st \in {"java.lang.IllegalArgumentException",
                     "java.lang.IllegalArgumentException/empty"}
             => /\ e.cls = "SparkConnectIllegalArgumentException"
                /\ e.msg \in {"info.metadata.message", "status.message"}
                /\ ~e.plan
          /\ st = "java.lang.RuntimeException"
             => /\ e.cls = "SparkConnectGrpcException"
                /\ e.msg = "status.message" /\ e.reason = st /\ ~e.plan
          /\ st = "no_info"
             => /\ e.cls = "SparkConnectGrpcException"
                /\ e.msg = "status.message" /\ e.reason = "" /\ ~e.plan
          /\ st = "none"
             => /\ e.cls = "SparkConnectGrpcException"
                /\ e.msg = "str(rpc_error)" /\ e.reason = "" /\ ~e.plan

C13_Witness ==
    /\ EndedInRpcError
    /\ raised.status = "java.lang.RuntimeException"
    /\ outcome.err.reason = "java.lang.RuntimeException"

\* an execute-and-fetch call has returned its table and metrics
FetchReturned ==
    /\ pc = "done"
    /\ call = "execute_and_fetch"
    /\ outcome.kind = "ok"

\* C14: the metrics returned by execute-and-fetch are those of the last
\* chunk of the stream that carried a metrics block, however many chunks
\* without one follow it, and the empty list if no chunk carried one.
C14_MetricsLastBlockWins ==
    FetchReturned
    => outcome.metrics = IF last_block = "none" THEN <<>> ELSE <<last_block>>

Constructed == builder.made
ConstructorRaised == ctor_raised # NoErr

\* the value of the connection string's user_id parameter, "None" without
ConnUserId ==
    IF \E i \in DOMAIN builder.params : builder.params[i][1] = "user_id"
    THEN LET i == CHOOSE j \in DOMAIN builder.params :
                      builder.params[j][1] = "user_id"
         IN builder.params[i][2]
    ELSE "None"

\* C12 (as stated): the user id of a constructed client is the userId
\* argument when given, otherwise the user_id of the connection string,
\* otherwise $USER.
C12_ArgumentUserIdWins ==
    Constructed
    => user_id = IF userId_arg # "None" THEN userId_arg
                 ELSE IF ConnUserId # "None" THEN ConnUserId
                 ELSE env_USER

\* C12 (amended): the user id of a constructed client is the user_id of the
\* connection string when it has one, otherwise the userId argument when
\* given, otherwise $USER (none if unset).
C12_ConnectionStringUserIdWins ==
    Constructed
    => user_id = IF ConnUserId # "None" THEN ConnUserId
                 ELSE IF userId_arg # "None" THEN userId_arg
                 ELSE env_USER

C12_Witness ==
    /\ Constructed
    /\ userId_arg = "arg"
    /\ env_USER = "user"
    /\ ConnUserId = "u1"
    /\ user_id = "u1"

\* number of lexemes d in s
Count(s, d) == Cardinality({i \in DOMAIN s : s[i] = d})

\* the components urlparse finds in the connection string
Components == urlparse(tmp_url(connectionString))

\* the semicolon-delimited segments of the params component
ParamSegments ==
    IF Components.params = <<>> THEN <<>> ELSE Split(Components.params, ";")

\* one of the four defects of C16
Malformed ==
    \/ ~HasScPrefix(connectionString)
    \/ /\ HasScPrefix(connectionString)
       /\ \/ Components.path \notin {<<>>, <<"/">>}
          \/ \E i \in DOMAIN ParamSegments : Count(ParamSegments[i], "=") # 1
          \/ Count(Components.netloc, ":") > 1

TokenPresent == \E i \in DOMAIN builder.params : builder.params[i][1] = "token"

\* the builder's use_ssl parameter is "true" in some capitalisation
UseSslTrue ==
    \E i \in DOMAIN builder.params :
        /\ builder.params[i][1] = "use_ssl"
        /\ builder.params[i][2] \in {"true", "TRUE", "True"}

\* C17: for a parsed connection string, secure is true iff a token
\* parameter is present or use_ssl is "true" compared case-insensitively;
\* without parameters it is false.
C17_SecureIffTokenOrSsl ==
    Constructed
    => /\ secure(builder) <=> (TokenPresent \/ UseSslTrue)
       /\ builder.params = <<>> => ~secure(builder)

C17_Witness ==
    /\ Constructed
    /\ ~TokenPresent
    /\ builder.params = << <<"use_ssl", "TRUE">> >>
    /\ secure(builder)

ReservedKeys == {"token", "use_ssl", "user_id"}

\* C19: metadata() is the parsed parameters whose key is not token, use_ssl
\* or user_id, each with its percent-decoded value (that of the last segment
\* of the key), in the order in which the keys first appear in the string.
C19_MetadataIsFreeParams ==
    Constructed
    => LET segs == ParamSegments
           keys == [i \in DOMAIN segs |-> Concat(Split(segs[i], "=")[1])]
           vals == [i \in DOMAIN segs |-> Concat(Split(segs[i], "=")[2])]
           firsts == SelectSeq([i \in DOMAIN segs |-> i],
                               LAMBDA i : /\ keys[i] \notin ReservedKeys
                                          /\ \A j \in 1..(i - 1) :
                                                keys[j] # keys[i])
           last(i) == CHOOSE j \in DOMAIN segs :
                         /\ keys[j] = keys[i]
                         /\ \A k \in DOMAIN segs : keys[k] = keys[i] => k <= j
           decoded(v) == IF v = "120%2021" THEN "120 21" ELSE v
           md == metadata(builder)
       IN /\ md = [n \in DOMAIN firsts |->
                      <<keys[firsts[n]], decoded(vals[last(firsts[n])])>>]
          /\ \A n \in DOMAIN md : md[n][1] \notin ReservedKeys

C19_Witness ==
    /\ Constructed
    /\ Len(ParamSegments) = 3
    /\ ParamSegments[1] = <<"param1", "=", "v2">>
    /\ metadata(builder) = << <<"param1", "120 21">>, <<"x-my-header", "abcd">> >>

\* the connection string has parameters and no "/" before them
NoSlashForm ==
    /\ HasScPrefix(connectionString)
    /\ Find(SubSeq(connectionString, 5, Len(connectionString)), ";", 1) # 0
    /\ Find(SubSeq(connectionString, 5, Len(connectionString)), "/", 1) = 0

\* the connection string with "/" put before its first ";"
SlashForm ==
    LET i == Find(connectionString, ";", 1)
    IN SubSeq(connectionString, 1, i - 1) \o <<"/">>
       \o SubSeq(connectionString, i, Len(connectionString))

\* C20: the "/" before the parameters is optional: a connection string
\* sc://host[:port];k=v... yields the host, port and parameters (or the
\* error) of sc://host[:port]/;k=v..., its host contains no ";", and its
\* token or use_ssl=true makes secure true.
C20_SlashOptional ==
    ((Constructed \/ ConstructorRaised) /\ NoSlashForm)
    => /\ [raised |-> ctor_raised, builder |-> builder]
            = ChannelBuilder(SlashForm)
       /\ Constructed
            => secure(builder) = secure(ChannelBuilder(SlashForm).builder)

C22_RetryPolicyDefaults ==
    Constructed
    => /\ DOMAIN policy =
            {"max_retries", "initial_backoff", "max_backoff",
             "backoff_multiplier"}
       /\ \A k \in DOMAIN policy :
             policy[k] = IF retryPolicy.given /\ k \in DOMAIN retryPolicy.dict
                         THEN retryPolicy.dict[k]
                         ELSE CASE k = "max_retries" -> 15
                                [] k = "initial_backoff" -> 50
                                [] k = "max_backoff" -> 60000
                                [] k = "backoff_multiplier" -> <<4, 1>>
       /\ ~retryPolicy.given => policy.max_retries + 1 = 16

C22_Witness ==
    /\ Constructed
    /\ retryPolicy.given
    /\ DOMAIN retryPolicy.dict = {"max_retries"}
    /\ policy.max_retries = 1
    /\ policy.initial_backoff = 50
    /\ policy.max_backoff = 60000

\* C25: the loop never raises "Retries exceeded but no exception caught":
\* whenever a call ends with an error, that error is a recorded, propagated
\* or translated one.
C25_NoErrorExhaustionUnreachable ==
    (pc = "done" /\ outcome.kind = "error")
    => outcome.err # RetriesExceededError

\* C29: when the loop resumes after a retriable failure with retries
\* remaining and the backoff bound truncates to an integer <= 0, the step
\* makes no further attempt and no sleep: the call ends with the ValueError
\* of random.randrange in place of the recorded error; a policy whose
\* initial_backoff or max_backoff is 0 never makes a second attempt.
C29_EmptyBackoffRangeRaises ==
    /\ [][(/\ pc = "loop"
           /\ ~retry_state.done
           /\ retry_state.count > 0
           /\ retry_state.count <= policy.max_retries
           /\ BackoffBound(policy, retry_state.count) <= 0)
          => /\ retry_state.exception # NoErr
             /\ pc' = "done"
             /\ outcome' = Raise(EmptyRangeError)
             /\ outcome'.err # retry_state.exception
             /\ attempts' = attempts
             /\ sleeps' = sleeps]_vars
    /\ []((policy.initial_backoff = 0 \/ policy.max_backoff = 0)
          => attempts <= 1)

C29_Witness ==
    /\ pc = "done"
    /\ call = "execute"
    /\ policy.initial_backoff = 0
    /\ policy.max_retries = MaxRetriesBound
    /\ attempts = 1
    /\ raised.cls = "RpcError"
    /\ raised.code = "UNAVAILABLE"
    /\ outcome = Raise(EmptyRangeError)

\* C30: every attempt of a client call sends the envelope the call built,
\* with the client's session id and user id; the envelope, the session id,
\* the user id and the channel builder (whose metadata goes with each
\* request) do not change while the call runs; one request is sent per
\* attempt, at most max_retries + 1 of them.
C30_RetryResendsSameRequest ==
    /\ [](call \in ClientCalls
          => /\ \A i \in DOMAIN sent :
                   /\ sent[i] = req
                   /\ sent[i].client_id = session_id
                   /\ user_id \notin {"None", ""}
                        => sent[i].user_id = user_id
             /\ Len(sent) = attempts
             /\ Len(sent) = rpc_calls
             /\ policy.max_retries >= 0 => Len(sent) <= policy.max_retries + 1)
    /\ [][(pc \in {"loop", "attempt"})
          => /\ req' = req
             /\ session_id' = session_id
             /\ user_id' = user_id
             /\ (sent' = sent \/ sent' = Append(sent, req))
             /\ metadata(builder') = metadata(builder)]_vars

C30_Witness ==
    /\ pc = "done"
    /\ call = "execute"
    /\ policy.max_retries >= 1
    /\ sent = [i \in 1..(policy.max_retries + 1) |-> req]
    /\ req.kind = "ExecutePlan"
    /\ nchunks >= 1
    /\ raised.cls = "RpcError"
    /\ raised.code = "UNAVAILABLE"
    /\ outcome.kind = "error"

\* C28: in every run of the retry loop the number of backoff sleeps is the
\* number of attempts minus one, and the step that ends the run (break,
\* exhaustion, a propagated error) sleeps no more.
C28_SleepsAreAttemptsMinusOne ==
    /\ []((pc = "done" /\ loops = 1) => sleeps = attempts - 1)
    /\ [][(pc \in {"loop", "attempt"} /\ pc' = "done")
          => sleeps' = sleeps]_vars

\* C24: the events of a call's retry loop follow attempt, (sleep, attempt)*,
\* outcome: an attempt begins only while no attempt is running; the first
\* one without a sleep, each later one after the previous attempt ended
\* with an exception the predicate accepts and after one sleep; and the
\* outcome comes after at least one attempt.
C24_AttemptSleepAttemptOutcome ==
    /\ [][(pc \in {"loop", "attempt"} /\ attempts' # attempts)
          => /\ pc = "loop"
             /\ pc' = "attempt"
             /\ attempts' = attempts + 1
             /\ IF attempts = 0
                THEN sleeps' = 0 /\ sleeps = 0
                ELSE /\ sleeps' = sleeps + 1
                     /\ ~retry_state.done
                     /\ retry_state.count = attempts
                     /\ retry_state.exception = raised
                     /\ CanRetry(can_retry, raised) = "yes"]_vars
    /\ [][(pc \in {"loop", "attempt"} /\ attempts' = attempts)
          => sleeps' = sleeps]_vars
    /\ [][(pc \in {"loop", "attempt"} /\ pc' = "done")
          => attempts >= 1]_vars

\* C26: with max_retries >= 0 every analyze / executeCommand /
\* executeAndFetch call that has begun eventually ends, with a result or
\* with an error, after at most max_retries + 1 attempts; a running call has
\* no outcome yet, an ended call has exactly one, and that outcome changes
\* only when the next call begins.
C26_CallsEndCompleteOrFailed ==
    /\ (call \in ClientCalls /\ pc \in {"loop", "attempt"})
         ~> (pc = "done" /\ outcome.kind \in {"ok", "error"})
    /\ []((call \in ClientCalls /\ policy.max_retries >= 0)
          => /\ attempts <= policy.max_retries + 1
             /\ pc \in {"loop", "attempt"} => outcome = NoOutcome
             /\ pc = "done" => outcome.kind \in {"ok", "error"}
             /\ outcome.kind = "ok" => outcome.err = NoErr
             /\ outcome.kind = "error" => outcome.err # NoErr)
    /\ [][(pc = "done" /\ outcome' # outcome)
          => (attempts' = 0 /\ sent' = <<>> /\ outcome.kind # "none")]_vars

C26_Witness ==
    /\ pc = "done"
    /\ call = "execute_and_fetch"
    /\ policy.max_retries = 1
    /\ attempts = 2
    /\ raised.code = "UNAVAILABLE"
    /\ outcome.kind = "ok"

\* C23: the step that starts the retry loop of a call gives it a fresh
\* RetryState (count 0, no exception, not done); while the call runs the
\* count is the number of this call's failed attempts and the recorded
\* exception is one raised in this call, whatever the calls before it on the
\* same client recorded; so the call can make all its max_retries + 1
\* attempts and the error it raises at exhaustion is its own.
C23_RetryStateIsPerCall ==
    /\ [][(pc \in {"idle", "done"} /\ pc' = "loop")
          => /\ retry_state' = RetryState
             /\ attempts' = 0
             /\ backoff' = 0]_vars
    /\ []((pc = "attempt")
          => /\ retry_state.count = attempts - 1
             /\ ~retry_state.done)
    /\ []((pc = "loop")
          => /\ retry_state.count = IF retry_state.done THEN attempts - 1
                                    ELSE attempts
             /\ retry_state.exception = IF retry_state.count = 0 THEN NoErr
                                        ELSE raised
             /\ retry_state.exception # NoErr
                  => retry_state.exception.id \in 1..attempts)
    /\ []((pc = "done" /\ loops = 1 /\ outcome.kind = "error"
             /\ outcome.err.id # 0)
          => /\ outcome.err.id = attempts
             /\ raised.id = attempts)

C23_Witness ==
    /\ history.on
    /\ history.later
    /\ history.failures = policy.max_retries + 1
    /\ policy.max_retries = 1
    /\ pc = "done"
    /\ call = "analyze"
    /\ attempts = 2
    /\ raised.id = 1
    /\ outcome.kind = "ok"

\* C27: each attempt of execute-and-fetch starts with an empty list of
\* batches, dropping what a failed attempt had received; the list holds
\* only what the stream of the current attempt delivered, and the table
\* returned is that list of the final attempt, with no batch of an earlier
\* attempt in it.
C27_FailedAttemptBatchesDropped ==
    /\ [][(call = "execute_and_fetch" /\ pc = "loop" /\ pc' = "attempt")
          => /\ batches' = <<>>
             /\ history'.discarded = history.discarded + Len(batches)]_vars
    /\ []((call = "execute_and_fetch" /\ loops = 1) => batches = delivered)
    /\ [](FetchReturned
          => /\ outcome.table = batches
             /\ Len(outcome.table) = Len(delivered))

C27_Witness ==
    /\ FetchReturned
    /\ history.on
    /\ history.discarded >= 1
    /\ attempts = 2
    /\ raised.code = "UNAVAILABLE"
    /\ raised.id = 1
    /\ outcome.table = <<1>>

====
